---- MODULE Spec2Model ----
(***************************************************************************)
(* Tilesheet manager of ftb-rs (src/src/tilesheets.rs): the Sheet raster   *)
(* buffers, the tile position allocator (TilesheetManager::lookup) and the *)
(* reconciliation pipeline run by update_tilesheet.                        *)
(*                                                                         *)
(* Names are sequences of one-character strings, so that the illegal       *)
(* character test of check_changes is computed on the characters.          *)
(* The ring bound of lookup (64 in the source) and the sheet sizes are     *)
(* scaled down; every scaled number is a named definition.                 *)
(***************************************************************************)
EXTENDS Integers, Sequences, FiniteSets, TLC

VARIABLES
    pc,          \* position of update_tilesheet in its pipeline
    tiles,       \* TilesheetManager.tiles   : name -> [pos, id]
    entries,     \* TilesheetManager.entries : pos -> name
    renames,     \* TilesheetManager.renames : stem -> name
    added,       \* TilesheetManager.added   : sequence of names
    missing,     \* TilesheetManager.missing : set of names
    deleted,     \* TilesheetManager.deleted : sequence of registry ids
    tilesheets,  \* TilesheetManager.tilesheets : sequence of Sheet
    paths,       \* TilesheetManager.paths   : sequence of output files
    next,        \* TilesheetManager.next    : the allocator cursor
    files,       \* the png files of the work directory, in walk order
    wi,          \* index of the loop of the current stage: files passed by
                 \* update's walk, output files uploaded, chunks submitted
    ndel,        \* number of lines of todelete.txt the loop of
                 \* record_deletions has read, 0 once the loop has ended
    lines,       \* the lines record_deletions has read, while its loop runs
    upl,         \* the pending upload_tilesheet call: its ignorewarnings
                 \* flag, and the number n of re-attempts of the run so far
    calls,       \* the remote-mutating calls issued so far, in order
    returned     \* the lookup calls so far, in order: the name, the position
                 \* returned, and the tile names, the occupied positions and
                 \* the layer count of each sheet at the call

vars == <<pc, tiles, entries, renames, added, missing, deleted, tilesheets,
          paths, next, files, wi, ndel, lines, upl, calls, returned>>

(***************************************************************************)
(* Bounds of the model.                                                    *)
(***************************************************************************)
\* lookup's ring bound, 64 in the source (line 260), scaled down
RingLimit == 2
\* number of png files in the work directory
MaxFiles == 3
\* number of lines of todelete.txt
MaxDel == 2
\* number of layer images the registry holds for one size
MaxLayers == 1
\* upload calls of one run: the registry answers at most MaxUploads - 1 of
\* them with a warning that leads to another attempt
MaxUploads == 3
\* largest x and y of an insert, and number of inserts, of the Sheet machine
MaxCoord == 1
MaxInserts == 2

(***************************************************************************)
(* Names.                                                                  *)
(***************************************************************************)
NameA == <<"A">>
NameB == <<"B">>
NameC == <<"C">>
NameD == <<"D">>
FooBar == <<"f", "_", "b">>
Bracket == <<"d", "[", "0", "]">>
Empty == <<>>

\* names the registry may hold for the family
RegNames == {NameA, NameB, NameC}
\* file stems the work directory may hold
Stems == {NameA, NameC, NameD, FooBar}
\* names a line of todelete.txt may hold
DelNames == {NameA, NameB, NameD}

\* Tile.id is an Option<u64>
None == <<>>
Some(v) == <<v>>

\* registry id of a registry tile (ids are opaque and distinct)
RegId(name) == CASE name = NameA -> 11 [] name = NameB -> 12 [] OTHER -> 13

TilePos(x, y, z) == [x |-> x, y |-> y, z |-> z]

\* positions the registry may report for a tile: A and B may share a
\* position (a run whose delete call failed and whose add call succeeded
\* leaves the registry so), A, B and C may all differ, and C may lie on the
\* second layer.  import_tiles takes whatever the registry reports.
RegPos(name) ==
    CASE name = NameA -> {TilePos(0, 0, 0)}
      [] name = NameB -> {TilePos(0, 0, 0), TilePos(0, 1, 0)}
      [] OTHER -> {TilePos(1, 0, 0), TilePos(0, 0, 1)}

\* results load_renames may give
NoRenames == [s \in {} |-> Empty]
RenameMaps ==
    {NoRenames, (FooBar :> NameA) @@ (NameC :> Empty) @@ (NameD :> Bracket)}

Max(a, b) == IF a > b THEN a ELSE b

(***************************************************************************)
(* Sheet: one raster buffer per layer.  A buffer is its width, its height  *)
(* and its pixels; a pixel is <<source, x, y>>, <<0, 0, 0>> when blank.    *)
(***************************************************************************)
Blank == <<0, 0, 0>>

\* ImageBuffer::new(w, h): a zeroed buffer
NewBuffer(w, h) ==
    [w |-> w, h |-> h, pix |-> [p \in (0 .. w - 1) \X (0 .. h - 1) |-> Blank]]

\* Sheet::new
NewSheet(size) == [size |-> size, layers |-> << >>]

\* a layer image written by an earlier run: a by b cells of old content
LoadedBuffer(size, a, b) ==
    [w |-> a * size, h |-> b * size,
     pix |-> [p \in (0 .. a * size - 1) \X (0 .. b * size - 1) |-> <<9, p[1], p[2]>>]]

\* Sheet::load_layer
LoadLayer(sheet, buffer) == [sheet EXCEPT !.layers = Append(@, buffer)]

\* Sheet::add_layer
AddLayer(sheet) ==
    [sheet EXCEPT !.layers = Append(@, NewBuffer(sheet.size, sheet.size))]

\* mutant of Grow: the old pixels are not copied
GrowBlank(sheet, w, h, z) == [sheet EXCEPT !.layers[z + 1] = NewBuffer(w, h)]

\* Sheet::grow: layer z becomes a new w by h buffer holding the old pixels
Grow(sheet, w, h, z) ==
    LET old == sheet.layers[z + 1]
        new == [w |-> w, h |-> h,
                pix |-> [p \in (0 .. w - 1) \X (0 .. h - 1) |->
                            IF p[1] < old.w /\ p[2] < old.h THEN old.pix[p] ELSE Blank]]
    IN  [sheet EXCEPT !.layers[z + 1] = new]

\* ids of the local images
ImgId(stem) ==
    CASE stem = NameA -> 1 [] stem = NameC -> 2 [] stem = NameD -> 3 [] OTHER -> 4

\* decode_srgb, resize(img, size, size) and encode_srgb of the image of a
\* file: a size by size block of pixels of that image
Resample(stem, size) ==
    [q \in (0 .. size - 1) \X (0 .. size - 1) |-> <<ImgId(stem), q[1], q[2]>>]

\* mutant of GrownDims: the buffer takes the bounds of the new block
GrownDimsNoMax(w, h, nw, nh) == <<nw, nh>>

\* the width and height insert grows a w by h buffer to (lines 54-55)
GrownDims(w, h, nw, nh) == <<Max(w, Max(nw, w)), Max(h, Max(nh, h))>>

\* Sheet::insert indexes self.layers[z] and panics when z is past the end
InsertPanics(sheet, pos) == pos.z > Len(sheet.layers)

\* Sheet::insert, for pos.z <= Len(sheet.layers)
Insert(sheet, pos, img) ==
    LET size == sheet.size
        s1 == IF pos.z = Len(sheet.layers) THEN AddLayer(sheet) ELSE sheet
        w  == s1.layers[pos.z + 1].w
        h  == s1.layers[pos.z + 1].h
        nw == (pos.x + 1) * size
        nh == (pos.y + 1) * size
        s2 == IF nw > w \/ nh > h
              THEN Grow(s1, GrownDims(w, h, nw, nh)[1], GrownDims(w, h, nw, nh)[2], pos.z)
              ELSE s1
        x0 == pos.x * size
        y0 == pos.y * size
        old == s2.layers[pos.z + 1]
        new == [old EXCEPT !.pix =
                   [p \in DOMAIN old.pix |->
                       IF /\ p[1] >= x0 /\ p[1] < x0 + size
                          /\ p[2] >= y0 /\ p[2] < y0 + size
                       THEN img[<<p[1] - x0, p[2] - y0>>]
                       ELSE old.pix[p]]]
    IN  [s2 EXCEPT !.layers[pos.z + 1] = new]

(***************************************************************************)
(* The allocator: TilesheetManager::lookup.  The cursor nx is              *)
(* <<next.0, next.1, next.2>>: ring, offset in the ring, layer.            *)
(***************************************************************************)
\* mutant of Candidate: x and y are exchanged
CandidateSwapped(nx) ==
    IF nx[2] < nx[1]
    THEN TilePos(nx[1], nx[2], nx[3])
    ELSE TilePos(nx[2] - nx[1], nx[1], nx[3])

\* the candidate position of a cursor (lines 240-252)
Candidate(nx) ==
    IF nx[2] < nx[1]
    THEN TilePos(nx[2], nx[1], nx[3])
    ELSE TilePos(nx[1], nx[2] - nx[1], nx[3])

\* mutant of Advance: the ring is compared with the limit before it is
\* increased
AdvanceWide(nx) ==
    LET o == nx[2] + 1
    IN  IF o > nx[1] * 2
        THEN IF nx[1] = RingLimit
             THEN <<0, 0, nx[3] + 1>>
             ELSE <<nx[1] + 1, 0, nx[3]>>
        ELSE <<nx[1], o, nx[3]>>

\* mutant of Advance: the ring ends one offset early
AdvanceEarly(nx) ==
    LET o == nx[2] + 1
    IN  IF o >= nx[1] * 2
        THEN IF nx[1] + 1 = RingLimit
             THEN <<0, 0, nx[3] + 1>>
             ELSE <<nx[1] + 1, 0, nx[3]>>
        ELSE <<nx[1], o, nx[3]>>

\* one advance of the cursor (lines 256-264)
Advance(nx) ==
    LET o == nx[2] + 1
    IN  IF o > nx[1] * 2
        THEN IF nx[1] + 1 = RingLimit
             THEN <<0, 0, nx[3] + 1>>
             ELSE <<nx[1] + 1, 0, nx[3]>>
        ELSE <<nx[1], o, nx[3]>>

\* the loop of lookup (lines 239-265): the cursor at which it breaks
RECURSIVE Search(_, _)
Search(nx, ent) ==
    IF Candidate(nx) \notin DOMAIN ent THEN nx ELSE Search(Advance(nx), ent)

\* mutant of Lookup: a name with an assignment is searched a position too
LookupAlwaysSearch(t, ent, nx, name) ==
    LET n2  == Search(nx, ent)
        pos == Candidate(n2)
    IN  [pos |-> pos,
         tiles |-> (name :> [pos |-> pos, id |-> None]) @@ t,
         entries |-> (pos :> name) @@ ent,
         next |-> n2]

\* mutant of Lookup: a name with an assignment rewinds the cursor
LookupRewind(t, ent, nx, name) ==
    IF name \in DOMAIN t
    THEN [pos |-> t[name].pos, tiles |-> t, entries |-> ent, next |-> <<0, 0, 0>>]
    ELSE LET n2  == Search(nx, ent)
             pos == Candidate(n2)
         IN  [pos |-> pos,
              tiles |-> (name :> [pos |-> pos, id |-> None]) @@ t,
              entries |-> (pos :> name) @@ ent,
              next |-> n2]

\* lookup(name): the position returned and the fields it leaves behind
Lookup(t, ent, nx, name) ==
    IF name \in DOMAIN t
    THEN [pos |-> t[name].pos, tiles |-> t, entries |-> ent, next |-> nx]
    ELSE LET n2  == Search(nx, ent)
             pos == Candidate(n2)
         IN  [pos |-> pos,
              tiles |-> (name :> [pos |-> pos, id |-> None]) @@ t,
              entries |-> (pos :> name) @@ ent,
              next |-> n2]

(***************************************************************************)
(* Helpers of the pipeline.                                                *)
(***************************************************************************)
Range(f) == {f[i] : i \in DOMAIN f}

\* mutant of Without: the key stays
WithoutNothing(f, k) == f

\* a map without one key (HashMap::remove)
Without(f, k) == [j \in DOMAIN f \ {k} |-> f[j]]

\* mutant of Illegal: the underscore is not tested
IllegalBrackets(name) == \E i \in DOMAIN name : name[i] \in {"[", "]"}

\* name.contains(&['_', '[', ']'][..])  (lines 189 and 292)
Illegal(name) == \E i \in DOMAIN name : name[i] \in {"_", "[", "]"}

\* the renames resolution of a file stem (lines 180-188 and 283-291):
\* <<TRUE, name>>, or <<FALSE, stem>> for a file the renames map ignores
Resolve(ren, stem) ==
    IF stem \in DOMAIN ren
    THEN IF ren[stem] = Empty THEN <<FALSE, stem>> ELSE <<TRUE, ren[stem]>>
    ELSE <<TRUE, stem>>

\* str::trim and str::to_lowercase of a line read from stdin (line 218)
IsSpace(c) == c \in {" ", "\n", "\t", "\r"}
RECURSIVE TrimStart(_)
TrimStart(s) ==
    IF s # << >> /\ IsSpace(Head(s)) THEN TrimStart(Tail(s)) ELSE s
RECURSIVE TrimEnd(_)
TrimEnd(s) ==
    IF s # << >> /\ IsSpace(s[Len(s)]) THEN TrimEnd(SubSeq(s, 1, Len(s) - 1)) ELSE s
Trim(s) == TrimEnd(TrimStart(s))
LowerChar(c) ==
    CASE c = "C" -> "c" [] c = "O" -> "o" [] c = "N" -> "n" [] c = "T" -> "t"
      [] c = "I" -> "i" [] c = "U" -> "u" [] c = "E" -> "e" [] c = "Y" -> "y"
      [] OTHER -> c
ToLowercase(s) == [i \in DOMAIN s |-> LowerChar(s[i])]

Continue == <<"c", "o", "n", "t", "i", "n", "u", "e">>

\* lines the human may enter at the confirmation gate
Responses == {
    Continue \o <<"\n">>,
    <<" ", "C", "o", "n", "t", "i", "n", "u", "e", " ", "\n">>,
    <<"c", "o", "n", "t", "\n">>,
    <<"n", "o", "\n">>,
    <<"\n">>,
    << >>
}

\* response.trim().to_lowercase() == "continue"  (line 218)
Acknowledged(response) == ToLowercase(Trim(response)) = Continue

\* size lists of an existing family, and size lists the user may enter
\* for a new one
SizeLists == {<<2>>}
NewSizeLists == {<<2>>, <<1, 2>>}

\* cells (across, down) of a layer image the registry holds
LoadedCells == <<1, 2>>

\* the sheet import_tilesheets builds for one size of an existing family
\* whose registry holds nl layer images (lines 121-132)
RECURSIVE LoadedSheet(_, _)
LoadedSheet(size, nl) ==
    IF nl = 0 THEN NewSheet(size)
    ELSE LoadLayer(LoadedSheet(size, nl - 1),
                   LoadedBuffer(size, LoadedCells[1], LoadedCells[2]))

\* Sheet::insert of update's loop over the sheets (lines 300-302): the
\* sheets before the first one that panics are written
FirstPanic(sheets, pos) ==
    IF \E i \in DOMAIN sheets : InsertPanics(sheets[i], pos)
    THEN CHOOSE i \in DOMAIN sheets :
            /\ InsertPanics(sheets[i], pos)
            /\ \A j \in DOMAIN sheets : InsertPanics(sheets[j], pos) => i <= j
    ELSE 0

InsertAll(sheets, pos, stem) ==
    LET fp == FirstPanic(sheets, pos)
    IN  [i \in DOMAIN sheets |->
            IF fp = 0 \/ i < fp
            THEN Insert(sheets[i], pos, Resample(stem, sheets[i].size))
            ELSE sheets[i]]

\* the output files of optimize (lines 307-320): one per sheet and layer
RECURSIVE SheetPaths(_, _)
SheetPaths(sheets, i) ==
    IF i > Len(sheets) THEN << >>
    ELSE [z \in 1 .. Len(sheets[i].layers) |-> <<sheets[i].size, z - 1>>]
         \o SheetPaths(sheets, i + 1)

Min(a, b) == IF a < b THEN a ELSE b

\* chunk size of delete_tiles and add_tiles (lines 398 and 408)
ChunkSize == 50

\* mutant of Chunk: a chunk ends one element early
ChunkShort(seq, i) ==
    SubSeq(seq, i * ChunkSize + 1, Min(Len(seq), (i + 1) * ChunkSize) - 1)

\* the idx-th chunk (from 0) of slice.chunks(ChunkSize)
Chunk(seq, i) == SubSeq(seq, i * ChunkSize + 1, Min(Len(seq), (i + 1) * ChunkSize))

(***************************************************************************)
(* The pipeline of update_tilesheet (lines 448-461).                       *)
(***************************************************************************)
\* TilesheetManager::new (lines 93-108)
Init ==
    /\ pc = "import_tilesheets"
    /\ tiles = [n \in {} |-> 0]
    /\ entries = [p \in {} |-> 0]
    /\ renames \in RenameMaps
    /\ added = << >>
    /\ missing = {}
    /\ deleted = << >>
    /\ tilesheets = << >>
    /\ paths = << >>
    /\ next = <<0, 0, 0>>
    /\ files = << >>
    /\ wi = 0
    /\ ndel = 0
    /\ lines = << >>
    /\ upl = [ignorewarnings |-> FALSE, n |-> 0]
    /\ calls = << >>
    /\ returned = << >>

\* import_tilesheets, the family exists (lines 116-133)
ImportExisting ==
    /\ pc = "import_tilesheets"
    /\ \E sizes \in SizeLists, nl \in 0 .. MaxLayers :
          tilesheets' = [i \in DOMAIN sizes |-> LoadedSheet(sizes[i], nl)]
    /\ pc' = "import_tiles"
    /\ UNCHANGED <<tiles, entries, renames, added, missing, deleted, paths, next,
                   files, wi, ndel, lines, upl, calls, returned>>

\* import_tilesheets, no family of that name (lines 134-144)
ImportNew ==
    /\ pc = "import_tilesheets"
    /\ \E sizes \in NewSizeLists :
          /\ tilesheets' = [i \in DOMAIN sizes |-> NewSheet(sizes[i])]
          /\ calls' = Append(calls, [op |-> "create_sheet", arg |-> sizes])
    /\ pc' = "import_tiles"
    /\ UNCHANGED <<tiles, entries, renames, added, missing, deleted, paths, next,
                   files, wi, ndel, lines, upl, returned>>

\* import_tiles, one tile of the query (lines 148-165).  The registry
\* lists a name once.  An Err item of the query is skipped by the loop and
\* changes no field (a stuttering step).
ImportTile ==
    /\ pc = "import_tiles"
    /\ \E name \in RegNames \ DOMAIN tiles :
        \E pos \in RegPos(name) :
          /\ tiles' = (name :> [pos |-> pos, id |-> Some(RegId(name))]) @@ tiles
          /\ entries' = (pos :> name) @@ entries
          /\ missing' = missing \cup {name}
    /\ UNCHANGED <<pc, renames, added, deleted, tilesheets, paths, next, files, wi,
                   ndel, lines, upl, calls, returned>>

\* import_tiles, the query is exhausted
ImportTilesEnd ==
    /\ pc = "import_tiles"
    /\ pc' = "check_changes"
    /\ UNCHANGED <<tiles, entries, renames, added, missing, deleted, tilesheets,
                   paths, next, files, wi, ndel, lines, upl, calls, returned>>

\* mutant of ScanMissing: the name stays in missing
ScanMissingKeep(mis, name) == mis

\* self.missing.remove(&name)  (line 193)
ScanMissing(mis, name) == mis \ {name}

\* the push to added of lines 194-196
ScanAdded(add, t, name) == IF name \notin DOMAIN t THEN Append(add, name) ELSE add

\* check_changes, one png file of the walk (lines 170-197).  The walk
\* discovers the directory: files records it for update's second walk.
\* Entries that are no png files are passed over and change no field.
CheckFile ==
    /\ pc = "check_changes"
    /\ Len(files) < MaxFiles
    /\ \E stem \in Stems \ Range(files) :
          LET r == Resolve(renames, stem)
              name == r[2]
          IN  /\ files' = Append(files, stem)
              /\ IF ~r[1]
                 THEN UNCHANGED <<pc, missing, added>>
                 ELSE IF Illegal(name)
                 THEN pc' = "exit" /\ UNCHANGED <<missing, added>>
                 ELSE /\ missing' = ScanMissing(missing, name)
                      /\ added' = ScanAdded(added, tiles, name)
                      /\ UNCHANGED pc
    /\ UNCHANGED <<tiles, entries, renames, deleted, tilesheets, paths, next, wi,
                   ndel, lines, upl, calls, returned>>

\* check_changes, the walk is over
CheckEnd ==
    /\ pc = "check_changes"
    /\ pc' = "confirm_changes"
    /\ UNCHANGED <<tiles, entries, renames, added, missing, deleted, tilesheets,
                   paths, next, files, wi, ndel, lines, upl, calls, returned>>

\* confirm_changes (lines 199-222)
ConfirmChanges ==
    /\ pc = "confirm_changes"
    /\ \E response \in Responses :
          pc' = IF Acknowledged(response) THEN "record_deletions" ELSE "aborted"
    /\ UNCHANGED <<tiles, entries, renames, added, missing, deleted, tilesheets,
                   paths, next, files, wi, ndel, lines, upl, calls, returned>>

\* record_deletions, one line of todelete.txt (lines 225-233)
RecordDeletion ==
    /\ pc = "record_deletions"
    /\ ndel < MaxDel
    /\ ndel' = ndel + 1
    /\ \E name \in DelNames :
          /\ lines' = Append(lines, name)
          /\ IF name \in DOMAIN tiles
             THEN IF tiles[name].id = None
                  THEN pc' = "panic" /\ tiles' = Without(tiles, name)
                       /\ UNCHANGED <<deleted, entries>>
                  ELSE /\ tiles' = Without(tiles, name)
                       /\ deleted' = Append(deleted, tiles[name].id[1])
                       /\ entries' = Without(entries, tiles[name].pos)
                       /\ UNCHANGED pc
             ELSE UNCHANGED <<pc, tiles, deleted, entries>>
    /\ UNCHANGED <<renames, added, missing, tilesheets, paths, next, files, wi,
                   upl, calls, returned>>

\* record_deletions, end of todelete.txt
RecordEnd ==
    /\ pc = "record_deletions"
    /\ pc' = "update"
    /\ ndel' = 0
    /\ lines' = << >>
    /\ UNCHANGED <<tiles, entries, renames, added, missing, deleted, tilesheets,
                   paths, next, files, wi, upl, calls, returned>>

\* update, one png file of the second walk (lines 273-303)
UpdateFile ==
    /\ pc = "update"
    /\ wi < Len(files)
    /\ wi' = wi + 1
    /\ LET stem == files[wi + 1]
           r == Resolve(renames, stem)
           name == r[2]
           l == Lookup(tiles, entries, next, name)
       IN  IF ~r[1]
           THEN UNCHANGED <<pc, tiles, entries, next, tilesheets, returned>>
           ELSE IF Illegal(name)
           THEN pc' = "exit" /\ UNCHANGED <<tiles, entries, next, tilesheets, returned>>
           ELSE /\ tiles' = l.tiles
                /\ entries' = l.entries
                /\ next' = l.next
                /\ returned' = Append(returned,
                       [name |-> name, pos |-> l.pos, known |-> DOMAIN tiles,
                        occ |-> DOMAIN entries,
                        layers |-> [i \in DOMAIN tilesheets |-> Len(tilesheets[i].layers)]])
                /\ tilesheets' = InsertAll(tilesheets, l.pos, stem)
                /\ pc' = IF FirstPanic(tilesheets, l.pos) = 0 THEN pc ELSE "panic"
    /\ UNCHANGED <<renames, added, missing, deleted, paths, files, ndel, lines, upl, calls>>

\* update, the walk is over
UpdateEnd ==
    /\ pc = "update"
    /\ wi = Len(files)
    /\ pc' = "optimize"
    /\ UNCHANGED <<tiles, entries, renames, added, missing, deleted, tilesheets,
                   paths, next, files, wi, ndel, lines, upl, calls, returned>>

\* optimize (lines 305-325)
Optimize ==
    /\ pc = "optimize"
    /\ paths' = paths \o SheetPaths(tilesheets, 1)
    /\ pc' = "upload_sheets"
    /\ wi' = 0
    /\ UNCHANGED <<tiles, entries, renames, added, missing, deleted, tilesheets,
                   next, files, ndel, lines, upl, calls, returned>>

\* mutant of StageAfter: the additions are handed off first
StageAfterAddFirst(stage) ==
    CASE stage = "upload_sheets" -> "add_tiles"
      [] stage = "add_tiles" -> "delete_tiles"
      [] OTHER -> "done"

\* the order of the handoff stages of update_tilesheet (lines 457-460)
StageAfter(stage) ==
    CASE stage = "upload_sheets" -> "delete_tiles"
      [] stage = "delete_tiles" -> "add_tiles"
      [] OTHER -> "done"

\* upload_sheets, one output file (lines 328-331)
UploadSheets ==
    /\ pc = "upload_sheets"
    /\ IF wi < Len(paths)
       THEN pc' = "upload_tilesheet" /\ upl' = [upl EXCEPT !.ignorewarnings = FALSE]
            /\ UNCHANGED wi
       ELSE pc' = StageAfter(pc) /\ wi' = 0 /\ UNCHANGED upl
    /\ UNCHANGED <<tiles, entries, renames, added, missing, deleted, tilesheets,
                   paths, next, files, ndel, lines, calls, returned>>

\* answers of the registry to an upload, as upload_tilesheet classifies them
UploadAnswers == {"Success", "WarningExists", "WarningYes", "WarningNo",
                  "Errors", "LocalError", "Unknown"}

\* upload_tilesheet, one call of it (lines 333-394)
UploadTilesheet ==
    /\ pc = "upload_tilesheet"
    /\ calls' = Append(calls, [op |-> "upload",
                               arg |-> <<paths[wi + 1], upl.ignorewarnings>>])
    /\ \E answer \in UploadAnswers :
          IF answer \in {"WarningExists", "WarningYes"}
          THEN /\ upl.n + 1 < MaxUploads
               /\ upl' = [ignorewarnings |-> TRUE, n |-> upl.n + 1]
               /\ UNCHANGED <<pc, wi>>
          ELSE IF answer = "Unknown"
          THEN pc' = "panic" /\ UNCHANGED <<upl, wi>>
          ELSE pc' = "upload_sheets" /\ wi' = wi + 1 /\ UNCHANGED upl
    /\ UNCHANGED <<tiles, entries, renames, added, missing, deleted, tilesheets,
                   paths, next, files, ndel, lines, returned>>

\* mutant of AfterChunk: an error answer ends the run
AfterChunkAbort(stage, ok) == IF ok THEN stage ELSE "exit"

\* the stage after one chunk was submitted: an error answer is printed and
\* the loop goes on (lines 400-402 and 417-419)
AfterChunk(stage, ok) == stage

\* delete_tiles, one chunk (lines 398-403)
DeleteChunk ==
    /\ pc = "delete_tiles"
    /\ wi * ChunkSize < Len(deleted)
    /\ \E ok \in BOOLEAN :
          /\ calls' = Append(calls, [op |-> "delete_tiles", arg |-> Chunk(deleted, wi),
                                     ok |-> ok])
          /\ pc' = AfterChunk(pc, ok)
    /\ wi' = wi + 1
    /\ UNCHANGED <<tiles, entries, renames, added, missing, deleted, tilesheets,
                   paths, next, files, ndel, lines, upl, returned>>

\* delete_tiles, no chunk is left
DeleteEnd ==
    /\ pc = "delete_tiles"
    /\ wi * ChunkSize >= Len(deleted)
    /\ pc' = StageAfter(pc)
    /\ wi' = 0
    /\ UNCHANGED <<tiles, entries, renames, added, missing, deleted, tilesheets,
                   paths, next, files, ndel, lines, upl, calls, returned>>

\* the "x y z name" entries of one add_tiles call (lines 409-416)
AddEntries(chunk) ==
    [i \in DOMAIN chunk |->
        <<tiles[chunk[i]].pos.x, tiles[chunk[i]].pos.y, tiles[chunk[i]].pos.z, chunk[i]>>]

\* add_tiles, one chunk (lines 408-420)
AddChunk ==
    /\ pc = "add_tiles"
    /\ wi * ChunkSize < Len(added)
    /\ IF \E i \in DOMAIN Chunk(added, wi) : Chunk(added, wi)[i] \notin DOMAIN tiles
       THEN pc' = "panic" /\ UNCHANGED <<calls, wi>>
       ELSE /\ \E ok \in BOOLEAN :
                 /\ calls' = Append(calls, [op |-> "add_tiles",
                                            arg |-> AddEntries(Chunk(added, wi)),
                                            ok |-> ok])
                 /\ pc' = AfterChunk(pc, ok)
            /\ wi' = wi + 1
    /\ UNCHANGED <<tiles, entries, renames, added, missing, deleted, tilesheets,
                   paths, next, files, ndel, lines, upl, returned>>

\* add_tiles, no chunk is left: the run is done
AddEnd ==
    /\ pc = "add_tiles"
    /\ wi * ChunkSize >= Len(added)
    /\ pc' = StageAfter(pc)
    /\ UNCHANGED <<tiles, entries, renames, added, missing, deleted, tilesheets,
                   paths, next, files, wi, ndel, lines, upl, calls, returned>>

Next ==
    \/ ImportExisting \/ ImportNew \/ ImportTile \/ ImportTilesEnd
    \/ CheckFile \/ CheckEnd \/ ConfirmChanges
    \/ RecordDeletion \/ RecordEnd
    \/ UpdateFile \/ UpdateEnd \/ Optimize
    \/ UploadSheets \/ UploadTilesheet
    \/ DeleteChunk \/ DeleteEnd \/ AddChunk \/ AddEnd

Spec == Init /\ [][Next]_vars

(***************************************************************************)
(* The Sheet on its own: any sequence of add_layer and insert calls on one *)
(* sheet.  grow is private to Sheet and is called by insert only.  wi      *)
(* counts the calls and returned holds the arguments of the last insert.   *)
(***************************************************************************)
SheetSizes == {2, 3}
SheetLayers == {0, 1}
SheetImages == {NameA, NameC}

SheetInit ==
    /\ pc = "sheet"
    /\ tilesheets \in {<<NewSheet(size)>> : size \in SheetSizes}
                      \cup {<<LoadedSheet(2, 1)>>}
    /\ tiles = [n \in {} |-> 0]
    /\ entries = [p \in {} |-> 0]
    /\ renames = NoRenames
    /\ added = << >>
    /\ missing = {}
    /\ deleted = << >>
    /\ paths = << >>
    /\ next = <<0, 0, 0>>
    /\ files = << >>
    /\ wi = 0
    /\ ndel = 0
    /\ lines = << >>
    /\ upl = [ignorewarnings |-> FALSE, n |-> 0]
    /\ calls = << >>
    /\ returned = << >>

\* Sheet::insert at a layer the sheet has, or at the one after its last
SheetInsert ==
    /\ pc = "sheet"
    /\ wi < MaxInserts
    /\ wi' = wi + 1
    /\ \E x \in 0 .. MaxCoord, y \in 0 .. MaxCoord, z \in SheetLayers,
          stem \in SheetImages :
          /\ ~InsertPanics(tilesheets[1], TilePos(x, y, z))
          /\ tilesheets' = <<Insert(tilesheets[1], TilePos(x, y, z),
                                    Resample(stem, tilesheets[1].size))>>
          /\ returned' = <<[name |-> stem, pos |-> TilePos(x, y, z),
                            known |-> {}, occ |-> {},
                            layers |-> <<Len(tilesheets[1].layers)>>]>>
    /\ UNCHANGED <<pc, tiles, entries, renames, added, missing, deleted, paths,
                   next, files, ndel, lines, upl, calls>>

\* Sheet::add_layer
SheetAddLayer ==
    /\ pc = "sheet"
    /\ wi < MaxInserts
    /\ wi' = wi + 1
    /\ Len(tilesheets[1].layers) < Cardinality(SheetLayers)
    /\ tilesheets' = <<AddLayer(tilesheets[1])>>
    /\ returned' = << >>
    /\ UNCHANGED <<pc, tiles, entries, renames, added, missing, deleted, paths,
                   next, files, ndel, lines, upl, calls>>

SheetNext == SheetInsert \/ SheetAddLayer

SheetSpec == SheetInit /\ [][SheetNext]_vars

(***************************************************************************)
(* The handoff of the batches on its own: delete_tiles and add_tiles of a  *)
(* run with many deleted tiles and many new local files.  The family has   *)
(* no size, hence no sheet and no output file; every tile of the registry  *)
(* was deleted, and the new names were allocated by lookup in file order.  *)
(***************************************************************************)
\* whole chunks of the longest batch
MaxChunks == 2
\* the lengths of added and of deleted
BatchLens == {k * ChunkSize + r : k \in 0 .. MaxChunks, r \in {0, 1, 20}}

Digit(d) == <<"0", "1", "2", "3", "4", "5", "6", "7", "8", "9">>[d + 1]
RECURSIVE Decimal(_)
Decimal(k) == IF k < 10 THEN <<Digit(k)>> ELSE Append(Decimal(k \div 10), Digit(k % 10))
\* the stem of the k-th local file
LocalName(k) == <<"n">> \o Decimal(k)
\* the registry id of the k-th deleted tile
DeletedId(k) == 100 + k

\* the cursor after j more advances
RECURSIVE AdvanceBy(_, _)
AdvanceBy(nx, j) == IF j = 0 THEN nx ELSE AdvanceBy(Advance(nx), j - 1)
\* the cursor lookup stops at for the k-th new name of a run whose position
\* index was empty: every layer has RingLimit * RingLimit cells
CursorOf(k) ==
    AdvanceBy(<<0, 0, (k - 1) \div (RingLimit * RingLimit)>>,
              (k - 1) % (RingLimit * RingLimit))

\* the state update_tilesheet is in when it calls delete_tiles
ChunkInit ==
    /\ pc = "delete_tiles"
    /\ \E n \in BatchLens, m \in BatchLens :
          /\ added = [i \in 1 .. n |-> LocalName(i)]
          /\ files = [i \in 1 .. n |-> LocalName(i)]
          /\ deleted = [i \in 1 .. m |-> DeletedId(i)]
          /\ tiles = [name \in {LocalName(i) : i \in 1 .. n} |->
                        LET k == CHOOSE i \in 1 .. n : LocalName(i) = name
                        IN  [pos |-> Candidate(CursorOf(k)), id |-> None]]
          /\ entries = [p \in {Candidate(CursorOf(i)) : i \in 1 .. n} |->
                          LocalName(CHOOSE i \in 1 .. n : Candidate(CursorOf(i)) = p)]
          /\ next = IF n = 0 THEN <<0, 0, 0>> ELSE CursorOf(n)
    /\ renames = NoRenames
    /\ missing = {}
    /\ tilesheets = << >>
    /\ paths = << >>
    /\ wi = 0
    /\ ndel = 0
    /\ lines = << >>
    /\ upl = [ignorewarnings |-> FALSE, n |-> 0]
    /\ calls = << >>
    /\ returned = << >>

ChunkNext == DeleteChunk \/ DeleteEnd \/ AddChunk \/ AddEnd

ChunkSpec == ChunkInit /\ [][ChunkNext]_vars

(***************************************************************************)
(* The allocator on its own: lookup calls, in any order, of new names and  *)
(* of names looked up before, on a manager that has imported tiles at any  *)
(* set of positions of layer 0 and at none or all of those of layer 1.     *)
(* The cursor is <<0, 0, 0>> at the first lookup of a run.                 *)
(***************************************************************************)
\* lookup calls of one run
MaxLookups == 3
\* the cells of one layer of the grid
GridCells(z) == {TilePos(x, y, z) : x, y \in 0 .. RingLimit - 1}
\* the name and the id of the tile the registry has at a position
CellName(p) == <<"r", Digit(p.x), Digit(p.y), Digit(p.z)>>
CellId(p) == 200 + p.x + 10 * p.y + 100 * p.z

AllocInit ==
    /\ pc = "lookup"
    /\ \E lower \in SUBSET GridCells(0), upper \in {{}, GridCells(1)} :
          /\ entries = [p \in lower \cup upper |-> CellName(p)]
          /\ tiles = [name \in {CellName(p) : p \in lower \cup upper} |->
                        LET p == CHOOSE q \in lower \cup upper : CellName(q) = name
                        IN  [pos |-> p, id |-> Some(CellId(p))]]
    /\ next = <<0, 0, 0>>
    /\ renames = NoRenames
    /\ added = << >>
    /\ missing = {}
    /\ deleted = << >>
    /\ tilesheets = << >>
    /\ paths = << >>
    /\ files = << >>
    /\ wi = 0
    /\ ndel = 0
    /\ lines = << >>
    /\ upl = [ignorewarnings |-> FALSE, n |-> 0]
    /\ calls = << >>
    /\ returned = << >>

\* one call of lookup (lines 235-269), of the next new name or of a name
\* an earlier call was about
LookupCall ==
    /\ pc = "lookup"
    /\ Len(returned) < MaxLookups
    /\ \E k \in 1 .. Len(returned) + 1 :
          LET l == Lookup(tiles, entries, next, LocalName(k))
          IN  /\ tiles' = l.tiles
              /\ entries' = l.entries
              /\ next' = l.next
              /\ returned' = Append(returned,
                     [name |-> LocalName(k), pos |-> l.pos, known |-> DOMAIN tiles,
                      occ |-> DOMAIN entries, layers |-> << >>])
    /\ UNCHANGED <<pc, renames, added, missing, deleted, tilesheets, paths, files,
                   wi, ndel, lines, upl, calls>>

AllocNext == LookupCall

AllocSpec == AllocInit /\ [][AllocNext]_vars

(***************************************************************************)
(* Properties.                                                             *)
(***************************************************************************)
\* the i-th lookup was of a name that was not in the tile table
IsNew(i) == returned[i].name \notin returned[i].known

\* C1: every lookup of a name that is not yet in the tile table returns a
\* position that is unoccupied at the time of the call and that differs from
\* every position returned earlier in the run for a different name.
C1_FreshAndDistinct ==
    \A i \in DOMAIN returned :
        IsNew(i) =>
            /\ returned[i].pos \notin returned[i].occ
            /\ \A j \in 1 .. i - 1 :
                  returned[j].name # returned[i].name
                      => returned[j].pos # returned[i].pos

\* C2: in every reachable state the name-to-tile table and the
\* position-to-name index are inverse of each other: each known name has one
\* position, each occupied position holds one name, and no two live tiles
\* share a position.
C2_TablesInverse ==
    /\ \A n \in DOMAIN tiles :
          tiles[n].pos \in DOMAIN entries /\ entries[tiles[n].pos] = n
    /\ \A p \in DOMAIN entries :
          entries[p] \in DOMAIN tiles /\ tiles[entries[p]].pos = p
    /\ \A n, m \in DOMAIN tiles : tiles[n].pos = tiles[m].pos => n = m

\* the stages of the pipeline before the gate has read "continue", and the
\* state of a run the gate has aborted
BeforeGate == {"import_tilesheets", "import_tiles", "check_changes",
               "confirm_changes", "aborted"}

\* C3: no remote-mutating call (create a family, upload a sheet, delete
\* tiles, add tiles) is issued before the confirmation gate has read
\* "continue", and a run aborted at the gate has issued none.
C3_NoCallBeforeGate == pc \in BeforeGate => calls = << >>

\* the case of C4: one sheet, no tile and no occupied position at the first
\* lookup, and the first two lookups are of two new names
C4_Case ==
    /\ Len(tilesheets) = 1
    /\ Len(returned) >= 2
    /\ returned[1].known = {} /\ returned[1].occ = {}
    /\ IsNew(2)

\* C4 as stated: in a family with one size, no prior tiles and an empty
\* occupancy set, the first two new names get (0,0,0) and (1,0,0).
C4_AsStated ==
    C4_Case => /\ returned[1].pos = TilePos(0, 0, 0)
               /\ returned[2].pos = TilePos(1, 0, 0)

\* C4 amended: in a family with one size, no prior tiles and an empty
\* occupancy set, the first two new names get (0,0,0) and (0,1,0).
C4_FirstTwo ==
    C4_Case => /\ returned[1].pos = TilePos(0, 0, 0)
               /\ returned[2].pos = TilePos(0, 1, 0)

C4_Witness == C4_Case /\ returned[2].pos = TilePos(0, 1, 0)

\* the enumeration order of the cells: layer, then ring, then offset
EnumCursors(layers) ==
    {c \in (0 .. RingLimit - 1) \X (0 .. 2 * (RingLimit - 1)) \X (0 .. layers) :
        c[2] <= 2 * c[1]}
EnumBefore(c, d) ==
    \/ c[3] < d[3]
    \/ c[3] = d[3] /\ c[1] < d[1]
    \/ c[3] = d[3] /\ c[1] = d[1] /\ c[2] < d[2]
EnumCell(c) ==
    IF c[2] < c[1] THEN TilePos(c[2], c[1], c[3]) ELSE TilePos(c[1], c[2] - c[1], c[3])
\* (the layers 0 .. n \div RingLimit^2 have more than n cells, so that one of
\* them is free when n are occupied)
FirstFree(occ) ==
    LET layers == Cardinality(occ) \div (RingLimit * RingLimit)
        free == {c \in EnumCursors(layers) : EnumCell(c) \notin occ}
    IN  EnumCell(CHOOSE c \in free : \A d \in free : d = c \/ EnumBefore(c, d))

\* C5: the position lookup returns for a new name is the first unoccupied
\* cell of the enumeration order (layer, then ring, then offset) for the
\* set of positions occupied at the call, whatever the cursor was.
C5_FirstFree ==
    \A i \in DOMAIN returned :
        IsNew(i) => returned[i].pos = FirstFree(returned[i].occ)

\* a new name was looked up after the cursor had left <<0, 0, 0>> and with
\* the first cells occupied
C5_Witness ==
    \E i \in DOMAIN returned :
        /\ i > 1 /\ IsNew(i) /\ IsNew(i - 1)
        /\ Cardinality(returned[i].occ) >= 2
        /\ returned[i].pos # TilePos(0, 0, 0)

\* the name the file update is about to pass resolves to
CurName == Resolve(renames, files[wi + 1])[2]

\* update is about to look up a name that has an assignment
LooksUpKnown ==
    /\ pc = "update" /\ wi < Len(files)
    /\ Resolve(renames, files[wi + 1])[1]
    /\ ~Illegal(CurName)
    /\ CurName \in DOMAIN tiles

\* C6: lookup of a name that has an assignment returns the stored position
\* and leaves the tile table, the position index and the cursor unchanged;
\* and a name keeps its position from one state to the next for as long as
\* it stays in the tile table.
C6_KnownNameStable ==
    [][ /\ LooksUpKnown =>
            /\ tiles' = tiles /\ entries' = entries /\ next' = next
            /\ Len(returned') = Len(returned) + 1
            /\ returned'[Len(returned')].pos = tiles[CurName].pos
        /\ \A n \in DOMAIN tiles \cap DOMAIN tiles' : tiles'[n].pos = tiles[n].pos
      ]_vars

\* a name with an assignment has been looked up, after a new name was
C6_Witness ==
    \E i \in DOMAIN returned : i > 1 /\ ~IsNew(i) /\ IsNew(i - 1)

\* the subsequence of the files whose names are not in the registry
RECURSIVE NotIn(_, _)
NotIn(seq, set) ==
    IF seq = << >> THEN << >>
    ELSE IF Head(seq) \in set THEN NotIn(Tail(seq), set)
    ELSE <<Head(seq)>> \o NotIn(Tail(seq), set)

\* C7: after import and scan with no renames, missing is the set of
\* registry names no local file resolves to and added holds exactly the
\* local names with no registry entry; registry {A,B,C} and local files
\* {A,C,D} give added = {D} and missing = {B}.
C7_Reconciliation ==
    (pc = "confirm_changes" /\ renames = NoRenames) =>
        /\ missing = DOMAIN tiles \ Range(files)
        /\ added = NotIn(files, DOMAIN tiles)
        /\ (DOMAIN tiles = {NameA, NameB, NameC} /\ Range(files) = {NameA, NameC, NameD})
              => (added = <<NameD>> /\ missing = {NameB})

C7_Witness ==
    /\ pc = "confirm_changes" /\ renames = NoRenames
    /\ DOMAIN tiles = {NameA, NameB, NameC}
    /\ Range(files) = {NameA, NameC, NameD}
    /\ added = <<NameD>> /\ missing = {NameB}

\* a local file resolves to a name holding '_', '[' or ']'
HasIllegalFile ==
    \E i \in DOMAIN files :
        LET ignored == files[i] \in DOMAIN renames /\ renames[files[i]] = << >>
            name == IF files[i] \in DOMAIN renames THEN renames[files[i]] ELSE files[i]
        IN  ~ignored /\ \E k \in DOMAIN name : name[k] = "_" \/ name[k] = "[" \/ name[k] = "]"

\* C8: once a local file resolves to a name holding '_', '[' or ']', the
\* run has terminated in the scan: no lookup was made, no position was
\* allocated, no sheet was modified and no tile delta was handed off.
C8_IllegalNameStops ==
    HasIllegalFile =>
        /\ pc = "exit"
        /\ returned = << >>
        /\ next = <<0, 0, 0>>
        /\ \A n \in DOMAIN tiles : tiles[n].id # None
        /\ \A i \in DOMAIN tilesheets :
              tilesheets[i] = LoadedSheet(tilesheets[i].size, Len(tilesheets[i].layers))
        /\ paths = << >>
        /\ \A i \in DOMAIN calls : calls[i].op = "create_sheet"

\* the scan has stopped at a file renamed to a name with brackets, after
\* it had passed other files
C8_Witness ==
    /\ HasIllegalFile /\ pc = "exit"
    /\ Len(files) >= 2
    /\ \E i \in DOMAIN files : Resolve(renames, files[i])[2] = Bracket

\* C9: every layer buffer's width and height are multiples of the sheet's
\* size, and no buffer's width or height decreases from one state to the
\* next, after any sequence of add_layer and insert calls.
C9_Multiples ==
    \A i \in DOMAIN tilesheets : \A z \in DOMAIN tilesheets[i].layers :
        /\ tilesheets[i].layers[z].w % tilesheets[i].size = 0
        /\ tilesheets[i].layers[z].h % tilesheets[i].size = 0
        /\ tilesheets[i].layers[z].w >= tilesheets[i].size
        /\ tilesheets[i].layers[z].h >= tilesheets[i].size

C9_NoShrink ==
    \A i \in DOMAIN tilesheets : \A z \in DOMAIN tilesheets[i].layers :
        /\ i \in DOMAIN tilesheets'
        /\ z \in DOMAIN tilesheets'[i].layers
        /\ tilesheets'[i].layers[z].w >= tilesheets[i].layers[z].w
        /\ tilesheets'[i].layers[z].h >= tilesheets[i].layers[z].h

C9_MultiplesNeverShrink == []C9_Multiples /\ [][C9_NoShrink]_vars

\* a layer added by an insert has grown to two cells of a sheet of size 3
C9_Witness ==
    /\ pc = "sheet"
    /\ tilesheets[1].size = 3
    /\ Len(tilesheets[1].layers) = 2
    /\ tilesheets[1].layers[2].w = 6
    /\ tilesheets[1].layers[2].h = 3

\* the buffer of layer z of a sheet before an insert: the layer's, or an
\* empty one when the insert is to append the layer
BufferAt(sheet, z) ==
    IF z < Len(sheet.layers) THEN sheet.layers[z + 1]
    ELSE [w |-> 0, h |-> 0, pix |-> [p \in {} |-> Blank]]

\* the step is an insert of the Sheet machine that has to grow its layer
InsertGrows ==
    /\ pc = "sheet" /\ wi' = wi + 1 /\ returned' # << >>
    /\ LET pos == returned'[1].pos
           buf == BufferAt(tilesheets[1], pos.z)
       IN  \/ (pos.x + 1) * tilesheets[1].size > buf.w
           \/ (pos.y + 1) * tilesheets[1].size > buf.h

\* C10: an insert that has to grow a layer buffer leaves every pixel the
\* buffer held at its coordinate with its content; of the area it exposes,
\* the target cell holds the new tile and the rest is blank; and the
\* buffers of all other layers are unchanged.
C10_GrowthPreserves ==
    [][ InsertGrows =>
          LET pos  == returned'[1].pos
              size == tilesheets[1].size
              img  == Resample(returned'[1].name, size)
              old  == BufferAt(tilesheets[1], pos.z)
              new  == tilesheets'[1].layers[pos.z + 1]
              InCell(p) == /\ p[1] >= pos.x * size /\ p[1] < (pos.x + 1) * size
                           /\ p[2] >= pos.y * size /\ p[2] < (pos.y + 1) * size
          IN  /\ tilesheets'[1].size = size
              /\ Len(tilesheets'[1].layers) = Max(Len(tilesheets[1].layers), pos.z + 1)
              /\ \A z \in DOMAIN tilesheets[1].layers :
                    z # pos.z + 1 => tilesheets'[1].layers[z] = tilesheets[1].layers[z]
              /\ DOMAIN new.pix = (0 .. new.w - 1) \X (0 .. new.h - 1)
              /\ DOMAIN old.pix \subseteq DOMAIN new.pix
              /\ \A p \in DOMAIN old.pix : new.pix[p] = old.pix[p]
              /\ \A p \in DOMAIN new.pix \ DOMAIN old.pix :
                    new.pix[p] = IF InCell(p)
                                 THEN img[<<p[1] - pos.x * size, p[2] - pos.y * size>>]
                                 ELSE Blank
              /\ \A q \in DOMAIN img :
                    <<pos.x * size + q[1], pos.y * size + q[2]>> \in DOMAIN new.pix
      ]_vars

\* a one-cell layer holding a tile has grown to two cells by an insert
\* at (1,0,0)
C10_Witness ==
    /\ pc = "sheet" /\ wi = 2
    /\ returned # << >> /\ returned[1].pos = TilePos(1, 0, 0)
    /\ Len(tilesheets[1].layers) = 1
    /\ tilesheets[1].layers[1].w = 2 * tilesheets[1].size
    /\ tilesheets[1].layers[1].h = tilesheets[1].size
    /\ tilesheets[1].layers[1].pix[<<0, 0>>] # Blank
    /\ tilesheets[1].layers[1].pix[<<tilesheets[1].size, 0>>] # Blank

\* the calls of one operation of the registry, in the order they were issued
CallsOf(op) == SelectSeq(calls, LAMBDA c : c.op = op)
\* the arguments of a sequence of calls, one after the other
RECURSIVE Submitted(_)
Submitted(cs) == IF cs = << >> THEN << >> ELSE Head(cs).arg \o Submitted(Tail(cs))
\* n entries arrive in ceil(n / 50) calls of 50 entries, the last one of
\* the remainder
InFifties(cs, n) ==
    /\ Len(cs) = (n + 49) \div 50
    /\ \A i \in DOMAIN cs :
          Len(cs[i].arg) = IF i < Len(cs) THEN 50 ELSE n - 50 * (Len(cs) - 1)

\* C11: at the end of the handoff the n additions were submitted to add_tiles
\* in ceil(n / 50) calls that keep the order of added, each call of 50 entries
\* but the last, which has the remainder; every entry of added is in one
\* call, with the position its name has in the tile table; 120 additions
\* arrive as 50, 50 and 20; and the deleted ids are chunked by the same rule.
C11_ChunksOfFifty ==
    pc = "done" =>
        /\ InFifties(CallsOf("add_tiles"), Len(added))
        /\ Submitted(CallsOf("add_tiles"))
              = [i \in DOMAIN added |->
                    <<tiles[added[i]].pos.x, tiles[added[i]].pos.y,
                      tiles[added[i]].pos.z, added[i]>>]
        /\ Len(added) = 120 =>
              [i \in 1 .. 3 |-> Len(CallsOf("add_tiles")[i].arg)] = <<50, 50, 20>>
        /\ InFifties(CallsOf("delete_tiles"), Len(deleted))
        /\ Submitted(CallsOf("delete_tiles")) = deleted

\* 120 additions and 70 deletions were handed off
C11_Witness ==
    /\ pc = "done" /\ Len(added) = 120 /\ Len(deleted) = 70
    /\ Len(CallsOf("add_tiles")) = 3 /\ Len(CallsOf("delete_tiles")) = 2

\* C12: at every call of Sheet.insert by update, z is at most the number of
\* layers the sheet holds at the call, for every sheet of the family: the
\* insert writes a layer that exists or appends one layer.
C12_LayerExists ==
    \A i \in DOMAIN returned :
        \A k \in DOMAIN returned[i].layers :
            returned[i].pos.z <= returned[i].layers[k]

\* record_deletions reads one more line
ReadsLine == pc = "record_deletions" /\ Len(lines') = Len(lines) + 1

\* C13: a line of todelete.txt that names no tile of the table leaves the tile
\* table, the position index and deleted as they are, and the loop goes on
\* to the lines after it; a line that names a tile removes it from the
\* table and keeps the other tiles, appends its registry id to deleted, and
\* leaves its position unoccupied.
C13_DeletionLines ==
    [][ ReadsLine =>
          LET name == lines'[Len(lines')]
          IN  IF name \notin DOMAIN tiles
              THEN /\ tiles' = tiles /\ entries' = entries /\ deleted' = deleted
                   /\ pc' = "record_deletions"
              ELSE /\ DOMAIN tiles' = DOMAIN tiles \ {name}
                   /\ \A n \in DOMAIN tiles' : tiles'[n] = tiles[n]
                   /\ deleted' = Append(deleted, tiles[name].id[1])
                   /\ tiles[name].pos \notin DOMAIN entries'
                   /\ pc' = "record_deletions"
      ]_vars

\* D, which names no tile, was read and skipped, and then A was deleted
C13_Witness ==
    /\ pc = "record_deletions"
    /\ lines = <<NameD, NameA>>
    /\ deleted = <<RegId(NameA)>>
    /\ NameA \notin DOMAIN tiles

\* the cursor in the order of the claim: layer, ring, offset
LexLess(c, d) ==
    \/ c[3] < d[3]
    \/ c[3] = d[3] /\ c[1] < d[1]
    \/ c[3] = d[3] /\ c[1] = d[1] /\ c[2] < d[2]
\* the value after a cursor: the next offset of the ring, the next ring of
\* the layer, or the next layer
CursorSucc(c) ==
    IF c[2] < 2 * c[1] THEN <<c[1], c[2] + 1, c[3]>>
    ELSE IF c[1] < RingLimit - 1 THEN <<c[1] + 1, 0, c[3]>>
    ELSE <<0, 0, c[3] + 1>>
\* d is c, or is reached from c by moving to the next value a number of times
RECURSIVE StepsTo(_, _)
StepsTo(c, d) == c = d \/ (LexLess(c, d) /\ StepsTo(CursorSucc(c), d))

\* C14: from one state of a run to the next the cursor (layer, ring, offset)
\* never decreases in lexicographic order: a lookup leaves it as it is or
\* moves it from one value to the next a number of times, and nothing sets
\* it back.
C14_CursorNeverDecreases ==
    [][ ~LexLess(next', next) /\ StepsTo(next, next') ]_vars

\* a new name got a cell of layer 0 other than (0,0,0), and a later new name
\* a cell of layer 1: the cursor went on in layer 0 and then to layer 1
C14_Witness ==
    \E i, j \in DOMAIN returned :
        /\ i < j /\ IsNew(i) /\ IsNew(j)
        /\ returned[i].pos.z = 0 /\ returned[i].pos # TilePos(0, 0, 0)
        /\ returned[j].pos.z = 1
        /\ next[3] = 1

\* C15: every position lookup returns for a new name has x and y below the
\* ring limit (64 in the source, RingLimit here); the ring of the cursor
\* stays below the limit and its offset within the ring; and a position of
\* a layer above 0 is returned only when every cell of the grid of every
\* layer below it was occupied at the call.
C15_GridAndLayers ==
    /\ next[1] <= RingLimit - 1 /\ next[2] <= 2 * next[1]
    /\ \A i \in DOMAIN returned :
          IsNew(i) =>
              /\ returned[i].pos.x <= RingLimit - 1
              /\ returned[i].pos.y <= RingLimit - 1
              /\ \A z \in 0 .. returned[i].pos.z - 1 :
                    GridCells(z) \subseteq returned[i].occ

\* a new name got a position of layer 2, and an earlier one of layer 0
C15_Witness ==
    \E i, j \in DOMAIN returned :
        /\ i < j /\ IsNew(i) /\ IsNew(j)
        /\ returned[i].pos.z = 0
        /\ returned[j].pos.z = 2

\* the names of the entries of a sequence of add calls
NamesOf(es) == [i \in DOMAIN es |-> es[i][4]]

\* C16: whatever chunks the registry answers with an error, the handoff goes
\* on: it is in delete_tiles, in add_tiles or done, never aborted; once it
\* has left delete_tiles every deleted id was submitted, and once it is done
\* every entry of added was.
C16_ErrorsDoNotAbort ==
    /\ pc \in {"delete_tiles", "add_tiles", "done"}
    /\ pc \in {"add_tiles", "done"} => Submitted(CallsOf("delete_tiles")) = deleted
    /\ pc = "done" => NamesOf(Submitted(CallsOf("add_tiles"))) = added

\* the first delete chunk and the first add chunk got an error, and the
\* chunks after them and the addition batch were submitted all the same
C16_Witness ==
    /\ pc = "done"
    /\ Len(CallsOf("delete_tiles")) >= 2 /\ ~CallsOf("delete_tiles")[1].ok
    /\ Len(CallsOf("add_tiles")) >= 2 /\ ~CallsOf("add_tiles")[1].ok
    /\ CallsOf("add_tiles")[2].ok

\* the upload calls issued for one output file
UploadsOf(path) == SelectSeq(calls, LAMBDA c : c.op = "upload" /\ c.arg[1] = path)

\* C17: for one output file the upload flow makes at most one re-attempt, two
\* upload calls in all, whatever warnings the registry answers.
C17_AtMostTwoUploads ==
    \A i \in DOMAIN paths : Len(UploadsOf(paths[i])) <= 2

\* C18: at the end of a run that passed the gate, every name that got a new
\* position from update (a tile without registry id) is in added and was
\* submitted to add_tiles with that position.
C18_AllocatedAreAdded ==
    pc = "done" =>
        \A n \in DOMAIN tiles :
            tiles[n].id = None =>
                /\ n \in Range(added)
                /\ <<tiles[n].pos.x, tiles[n].pos.y, tiles[n].pos.z, n>>
                       \in Range(Submitted(CallsOf("add_tiles")))

\* C19: after the scan no name is twice in added, and no name is submitted
\* to add_tiles more than once in a run.
C19_AddedOnce ==
    /\ \A i, j \in DOMAIN added : added[i] = added[j] => i = j
    /\ LET names == NamesOf(Submitted(CallsOf("add_tiles")))
       IN  \A i, j \in DOMAIN names : names[i] = names[j] => i = j

\* C20: in the handoff no delete call follows an add call and no upload
\* follows a delete or an add call; when an add call is issued, every
\* deleted id has been carried by an earlier delete call and every output
\* file by an earlier upload.
C20_UploadsDeletesAdds ==
    \A j \in DOMAIN calls :
        /\ calls[j].op = "upload" =>
              \A i \in 1 .. j - 1 : calls[i].op \notin {"delete_tiles", "add_tiles"}
        /\ calls[j].op = "delete_tiles" =>
              /\ \A i \in 1 .. j - 1 : calls[i].op # "add_tiles"
              /\ \A k \in DOMAIN paths :
                    \E i \in 1 .. j - 1 : calls[i].op = "upload" /\ calls[i].arg[1] = paths[k]
        /\ calls[j].op = "add_tiles" =>
              /\ \A d \in Range(deleted) :
                    \E i \in 1 .. j - 1 :
                        calls[i].op = "delete_tiles" /\ d \in Range(calls[i].arg)
              /\ \A k \in DOMAIN paths :
                    \E i \in 1 .. j - 1 : calls[i].op = "upload" /\ calls[i].arg[1] = paths[k]

\* A, which the registry had at (0,0,0), was deleted and the new name D was
\* added at (0,0,0), after an upload and the delete call
C20_Witness ==
    /\ pc = "done"
    /\ deleted = <<RegId(NameA)>>
    /\ \E i, j, k \in DOMAIN calls :
          /\ i < j /\ j < k
          /\ calls[i].op = "upload"
          /\ calls[j].op = "delete_tiles" /\ calls[j].arg = <<RegId(NameA)>>
          /\ calls[k].op = "add_tiles" /\ <<0, 0, 0, NameD>> \in Range(calls[k].arg)

====
